---------------------------- MODULE Spec2Model ----------------------------
(***************************************************************************)
(* A model of the SimpleCNN of src/models/cnn.py and of its layers         *)
(* (src/models/layers.py): the forward pass with its per-stage state, the  *)
(* deconvnet visualisation, the filter normalisation and the lenient       *)
(* parameter loading.                                                      *)
(*                                                                         *)
(* Tensors are modelled at three levels, each as far as the code of the    *)
(* repository decides them:                                                *)
(*   - shapes are computed exactly (the convolution, pooling, unpooling    *)
(*     and transposed convolution size arithmetic of torch);               *)
(*   - the data of an activation is a term that records which operation   *)
(*     produced it from which operands (input, stage, weight value);       *)
(*   - weights, and the activations of one pooling plane, are numbers.     *)
(*     Weights are binary floating point numbers with a significand of     *)
(*     MantBits bits, rounded to nearest-even after every operation, as    *)
(*     torch's float32 (24 bits) is.                                       *)
(***************************************************************************)
EXTENDS Integers, Sequences, FiniteSets, TLC

VARIABLES
    config,     \* the configuration object consumed by SimpleCNN.__init__
    params,     \* the parameters of the module, by state_dict key
    image,      \* the input batch the caller has
    states,     \* the ModelStates the caller holds, oldest first
    last,       \* the last call: its operation, arguments and outcome
    nops,       \* the number of calls made so far
    plane       \* one (batch, channel) plane of a ConvLayer call (SpecPool)

vars == <<config, params, image, states, last, nops, plane>>

--------------------------------------------------------------------------
(* Bounds of the model *)

\* bits of the significand of a floating point number (float32: 24)
MantBits == 4
\* calls made in one behaviour
MaxOps == 3
\* ModelStates the caller keeps
MaxStates == 1

\* len(self.conv_layers)
NumStages == 4

--------------------------------------------------------------------------
(* Integer helpers *)

Abs(x) == IF x < 0 THEN -x ELSE x

Min(a, b) == IF a < b THEN a ELSE b

Max(a, b) == IF a < b THEN b ELSE a

Pow2(n) == 2 ^ n

\* the number of bits of n >= 0
RECURSIVE BitLen(_)
BitLen(n) == IF n = 0 THEN 0 ELSE 1 + BitLen(n \div 2)

\* floor(sqrt(n)) by bisection on lo..hi, lo*lo <= n < (hi+1)*(hi+1)
RECURSIVE IsqrtIn(_, _, _)
IsqrtIn(n, lo, hi) ==
    IF lo >= hi THEN lo
    ELSE LET mid == (lo + hi + 1) \div 2
         IN  IF mid * mid <= n THEN IsqrtIn(n, mid, hi)
             ELSE IsqrtIn(n, lo, mid - 1)

Isqrt(n) == IsqrtIn(n, 0, Pow2((BitLen(n) + 1) \div 2))

--------------------------------------------------------------------------
(* Floating point: <<m, e>> is m * 2^e, with m = 0 (and e = 0) or          *)
(* 2^(MantBits-1) <= |m| < 2^MantBits.  Every operation returns the exact  *)
(* result rounded to the nearest such number, ties to even.  The exponent  *)
(* is not bounded: the weights of the model stay far from float32's        *)
(* overflow and underflow.                                                 *)

FZero == <<0, 0>>

\* n * 2^e, n >= 0 exact, rounded
FRound(n, e) ==
    IF n = 0 THEN FZero
    ELSE LET b == BitLen(n)
         IN  IF b <= MantBits
             THEN <<n * Pow2(MantBits - b), e - (MantBits - b)>>
             ELSE LET d    == b - MantBits
                      q    == n \div Pow2(d)
                      rem  == n % Pow2(d)
                      half == Pow2(d - 1)
                      up   == rem > half \/ (rem = half /\ q % 2 = 1)
                      r    == IF up THEN q + 1 ELSE q
                  IN  IF r = Pow2(MantBits)
                      THEN <<Pow2(MantBits - 1), e + d + 1>>
                      ELSE <<r, e + d>>

FNeg(a) == <<-a[1], a[2]>>

FSigned(neg, a) == IF neg THEN FNeg(a) ELSE a

FromInt(n) == FSigned(n < 0, FRound(Abs(n), 0))

FMul(a, b) ==
    FSigned((a[1] < 0) # (b[1] < 0), FRound(Abs(a[1]) * Abs(b[1]), a[2] + b[2]))

FAdd(a, b) ==
    LET e == Min(a[2], b[2])
        n == a[1] * Pow2(a[2] - e) + b[1] * Pow2(b[2] - e)
    IN  IF a[1] = 0 THEN b
        ELSE IF b[1] = 0 THEN a
        ELSE FSigned(n < 0, FRound(Abs(n), e))

\* a / b, b # 0: the quotient to MantBits + 2 bits and a sticky bit, rounded
FDiv(a, b) ==
    LET n   == Abs(a[1]) * Pow2(MantBits + 2)
        q   == n \div Abs(b[1])
        rem == n % Abs(b[1])
        st  == IF rem > 0 THEN 1 ELSE 0
    IN  FSigned((a[1] < 0) # (b[1] < 0),
                FRound(2 * q + st, a[2] - b[2] - MantBits - 3))

\* sqrt(a), a >= 0: the root of the significand shifted to an even exponent,
\* to MantBits + 2 bits and a sticky bit, rounded
FSqrt(a) ==
    LET j0 == MantBits + 3
        j  == IF (a[2] - j0) % 2 = 0 THEN j0 ELSE j0 + 1
        M  == a[1] * Pow2(j)
        s  == Isqrt(M)
        st == IF s * s = M THEN 0 ELSE 1
    IN  FRound(2 * s + st, ((a[2] - j) \div 2) - 1)

\* a > b, exactly
FGt(a, b) ==
    LET e == Min(a[2], b[2])
    IN  a[1] * Pow2(a[2] - e) > b[1] * Pow2(b[2] - e)

FLe(a, b) == ~FGt(a, b)

--------------------------------------------------------------------------
(* The network as SimpleCNN.__init__ builds it from the configuration *)

\* ConvLayer(in_channels, ...): 3 for the first stage, then the previous
\* stage's out_channels
InChannels(cfg, i) == IF i = 1 THEN 3 ELSE cfg.channels[i - 1]

OutChannels(cfg, i) == cfg.channels[i]

\* the first stage has stride 2, the others stride 1
Stride(i) == IF i = 1 THEN 2 ELSE 1

\* a convolution without padding
PaddingNone(cfg, i) == 0

\* ConvLayer.__init__: padding = ((stride - 1) + kernel_size - 1) // 2
Padding(cfg, i) == ((Stride(i) - 1) + cfg.kernel_size - 1) \div 2

\* self.deconv_layers[d] (d from 0) is DeconvLayer(self.conv_layers[3 - d]):
\* the stage (from 1) of the conv layer it refers to
PairedStage(d) == NumStages - d

ConvWeightShape(cfg, i) ==
    <<OutChannels(cfg, i), InChannels(cfg, i), cfg.kernel_size, cfg.kernel_size>>

\* nn.Linear(config.conv4_channels * 7 * 7, config.fc_units).weight
FcWeightShape(cfg) == <<cfg.fc_units, cfg.channels[NumStages] * 7 * 7>>

--------------------------------------------------------------------------
(* state_dict keys, as sequences of characters *)

PfxConv == <<"c", "o", "n", "v", "_", "l", "a", "y", "e", "r", "s">>

PfxFc == <<"f", "c">>

SfxConvWeight == <<".", "c", "o", "n", "v", ".", "w", "e", "i", "g", "h", "t">>

SfxWeight == <<".", "w", "e", "i", "g", "h", "t">>

Digit(n) == <<"0", "1", "2", "3", "4", "5", "6", "7", "8", "9">>[n + 1]

\* "conv_layers.<i-1>.conv.weight", the weight of stage i (from 1)
ConvWeightKey(i) == PfxConv \o <<".", Digit(i - 1)>> \o SfxConvWeight

\* "fc.weight"
FcWeightKey == PfxFc \o SfxWeight

\* "deconv_layers.<d>.conv_layer.conv.weight": DeconvLayer registers the conv
\* layer it refers to as a submodule, so the same tensor has this name too
DeconvWeightKey(d) ==
    <<"d", "e">> \o PfxConv \o <<".", Digit(d)>>
        \o <<".", "c", "o", "n", "v", "_", "l", "a", "y", "e", "r">> \o SfxConvWeight

ConvKeys == {ConvWeightKey(i) : i \in 1..NumStages}

\* the keys under which the model stores a tensor of its own
OwnKeys == ConvKeys \cup {FcWeightKey}

\* str.startswith
StartsWith(key, prefix) ==
    /\ Len(key) >= Len(prefix)
    /\ SubSeq(key, 1, Len(prefix)) = prefix

--------------------------------------------------------------------------
(* Parameter tensors: [shape, data].  The data of a convolution weight is  *)
(* data[o][c][p], o the output filter, c the input channel and p the       *)
(* position in the kernel, row by row (p in 1..k*k); the data of the       *)
(* classifier's weight is not computed with and is a tag.                  *)

\* a convolution weight of the given shape filled, filter by filter, with
\* the values of vals in turn
MkConvWeight(shape, vals) ==
    LET kk == shape[3] * shape[4]
    IN  [shape |-> shape,
         data  |-> [o \in 1..shape[1] |-> [c \in 1..shape[2] |-> [p \in 1..kk |->
                      vals[((((o - 1) * shape[2] + (c - 1)) * kk + (p - 1)) % Len(vals)) + 1]]]]]

MkFcWeight(shape, tag) == [shape |-> shape, data |-> tag]

Weight(ps, i) == ps[ConvWeightKey(i)]

\* the weights of the filter, input channel by input channel
RECURSIVE Flatten(_)
Flatten(f) == IF f = <<>> THEN <<>> ELSE Head(f) \o Flatten(Tail(f))

--------------------------------------------------------------------------
(* The values the weights take *)

SmallVal == <<Pow2(MantBits - 1), -MantBits - 3>>

\* weights below and above the radius, of either sign, and zero
WeightVals ==
    {FZero,
     SmallVal,
     <<Pow2(MantBits - 1), -MantBits - 1>>,
     <<Pow2(MantBits - 1) + 1, -MantBits - 2>>,
     <<Pow2(MantBits) - 2, -MantBits - 2>>,
     <<-(Pow2(MantBits - 1) + Pow2(MantBits - 2)), -MantBits>>}

\* the values a stage's weight is filled with: as built, after a parameter
\* update, and as persisted
BuiltVals(i) ==
    IF i = NumStages THEN <<SmallVal, FZero, FNeg(SmallVal), SmallVal>>
    ELSE <<SmallVal, <<Pow2(MantBits - 1) + 1, -MantBits - 2>>,
           <<-Pow2(MantBits - 1), -MantBits - 1>>, FZero>>

StepVals == <<<<Pow2(MantBits) - 1, -MantBits>>, FZero, SmallVal, FNeg(SmallVal)>>

SavedVals == <<FZero, <<Pow2(MantBits - 1), -MantBits>>, SmallVal, SmallVal>>

InitParams(cfg, vals) ==
    [k \in OwnKeys |->
        IF k = FcWeightKey THEN MkFcWeight(FcWeightShape(cfg), 0)
        ELSE LET i == CHOOSE j \in 1..NumStages : ConvWeightKey(j) = k
             IN  MkConvWeight(ConvWeightShape(cfg, i), vals[i])]

--------------------------------------------------------------------------
(* SimpleCNN.normalize_filters *)

\* self.filter_radius = 1e-1, as a floating point number
FilterRadius == FDiv(FromInt(1), FromInt(10))

FOne == FromInt(1)

\* sum(w^2) over the first n weights of ws, added in turn
RECURSIVE SumSqTo(_, _)
SumSqTo(ws, n) ==
    IF n = 0 THEN FZero ELSE FAdd(SumSqTo(ws, n - 1), FMul(ws[n], ws[n]))

SumSq(ws) == SumSqTo(ws, Len(ws))

\* torch.sqrt(torch.mean(weight.pow(2), dim=(1,2,3)))[o]
FilterRMS(f) ==
    LET ws == Flatten(f)
    IN  FSqrt(FDiv(SumSq(ws), FromInt(Len(ws))))

\* the factor computed for every filter, over the radius or not
FilterScaleAll(rms) ==
    IF rms = FZero THEN FOne ELSE FMul(FDiv(FOne, rms), FilterRadius)

\* scale = ones_like(rms); scale[exceeded] = self.filter_radius / rms[exceeded]
\* for a filter of the given rms (torch computes float / Tensor as
\* Tensor.reciprocal() * float)
FilterScale(rms) ==
    IF FGt(rms, FilterRadius) THEN FMul(FDiv(FOne, rms), FilterRadius) ELSE FOne

\* for one filter: rms, exceeded = rms > self.filter_radius, and its scale
FilterStatOf(rms) ==
    [rms |-> rms, exceeded |-> FGt(rms, FilterRadius), scale |-> FilterScale(rms)]

FilterStat(f) == FilterStatOf(FilterRMS(f))

\* the statistics of the first n filters of the weight
RECURSIVE StatsTo(_, _)
StatsTo(w, n) ==
    IF n = 0 THEN <<>> ELSE Append(StatsTo(w, n - 1), FilterStat(w.data[n]))

\* exceeded.any()
AnyExceeded(st) == \E o \in DOMAIN st : st[o].exceeded

\* one filter of weight.data *= scale.view(-1, 1, 1, 1)
ScaledFilter(f, scale) ==
    [c \in DOMAIN f |-> [p \in DOMAIN f[c] |-> FMul(f[c][p], scale)]]

Rescaled(w, st) ==
    [w EXCEPT !.data = [o \in DOMAIN w.data |-> ScaledFilter(w.data[o], st[o].scale)]]

\* one stage of the loop, from the statistics of its filters: the weight
\* afterwards, whether a filter exceeded, and the stage's entry of
\* normalization_info
NormalizedStageOf(w, st) ==
    [weight |-> IF AnyExceeded(st) THEN Rescaled(w, st) ELSE w,
     any    |-> AnyExceeded(st),
     info   |-> [exceeded |-> [o \in DOMAIN st |-> st[o].exceeded],
                 scale    |-> [o \in DOMAIN st |-> st[o].scale]]]

NormalizedStage(w) == NormalizedStageOf(w, StatsTo(w, Len(w.data)))

\* the first n stages of the loop
RECURSIVE StagesTo(_, _)
StagesTo(ps, n) ==
    IF n = 0 THEN <<>>
    ELSE Append(StagesTo(ps, n - 1), NormalizedStage(Weight(ps, n)))

\* the parameters afterwards and normalization_info, which has an entry for
\* each stage (from 0) with a filter over the radius
NormalizeResultOf(ps, st) ==
    [params |-> [k \in DOMAIN ps |->
                    IF k \in ConvKeys
                    THEN st[CHOOSE i \in 1..NumStages : ConvWeightKey(i) = k].weight
                    ELSE ps[k]],
     info   |-> [i \in {j - 1 : j \in {n \in 1..NumStages : st[n].any}} |->
                    st[i + 1].info]]

NormalizeResult(ps) == NormalizeResultOf(ps, StagesTo(ps, NumStages))

NormalizeFilters ==
    /\ nops < MaxOps
    /\ \E r \in {NormalizeResult(params)} :
           /\ params' = r.params
           /\ last' = [op     |-> "normalize_filters",
                       prev   |-> last.op,
                       before |-> params,
                       info   |-> r.info]
    /\ nops' = nops + 1
    /\ UNCHANGED <<config, image, states, plane>>

--------------------------------------------------------------------------
(* The training loop's parameter update (optimizer.step()): the weight of  *)
(* one stage gets new values, in place.                                    *)

OptimizerStep(i, vals) ==
    /\ nops < MaxOps
    /\ params' = [params EXCEPT ![ConvWeightKey(i)] =
                     MkConvWeight(ConvWeightShape(config, i), vals)]
    /\ params' # params
    /\ last' = [op |-> "step", prev |-> last.op, stage |-> i, before |-> params]
    /\ nops' = nops + 1
    /\ UNCHANGED <<config, image, states, plane>>

--------------------------------------------------------------------------
(* Activations: [shape, data].  shape is the tensor's size, <<batch,       *)
(* channels, height, width>>; data is a term <<operation, attributes,      *)
(* operands>> that says how the tensor was computed.                       *)

Tensor(shape, op, attr, args) == [shape |-> shape, data |-> <<op, attr, args>>]

NoTensor == [shape |-> <<>>, data |-> <<"none", <<>>, <<>>>>]

\* an input image batch
InputTensor(id, b, h, w) == Tensor(<<b, 3, h, w>>, "input", <<id>>, <<>>)

\* nn.Conv2d: the output size along one axis, 0 when the padded input is
\* smaller than the kernel (torch raises)
ConvOutSize(n, k, s, pad) ==
    IF n + 2 * pad < k THEN 0 ELSE ((n + 2 * pad - k) \div s) + 1

\* nn.MaxPool2d(2): floor((n - 2) / 2) + 1
PoolOutSize(n) == n \div 2

\* F.conv_transpose2d: (n - 1) * stride - 2 * padding + (k - 1) + output_padding + 1
ConvTransposeOutSize(n, k, s, pad, opad) == (n - 1) * s - 2 * pad + (k - 1) + opad + 1

--------------------------------------------------------------------------
(* ConvLayer.forward *)

NoLayerState == [output |-> NoTensor, pre_pool |-> NoTensor, pool_indices |-> NoTensor]

ConvLayerForward(cfg, w, i, x) ==
    LET k   == cfg.kernel_size
        h   == ConvOutSize(x.shape[3], k, Stride(i), Padding(cfg, i))
        wd  == ConvOutSize(x.shape[4], k, Stride(i), Padding(cfg, i))
        \* x = F.relu(self.bn(self.conv(x))); pre_pool = x
        pre == Tensor(<<x.shape[1], w.shape[1], h, wd>>,
                      "relu_bn_conv", <<i, w.data>>, <<x.data>>)
        \* x, indices = self.pool(x)
        ps  == <<x.shape[1], w.shape[1], PoolOutSize(h), PoolOutSize(wd)>>
    IN  IF \/ x.shape[2] # w.shape[2]          \* conv: channel mismatch
           \/ h = 0 \/ wd = 0                   \* conv: input smaller than kernel
           \/ x.shape[1] * h * wd = 1           \* bn: one value per channel
           \/ PoolOutSize(h) = 0 \/ PoolOutSize(wd) = 0   \* pool: empty output
        THEN [status |-> "RuntimeError", state |-> NoLayerState]
        ELSE [status |-> "ok",
              state  |-> [output       |-> Tensor(ps, "max_pool", <<>>, <<pre.data>>),
                          pre_pool     |-> pre,
                          pool_indices |-> Tensor(ps, "argmax", <<>>, <<pre.data>>)]]

--------------------------------------------------------------------------
(* SimpleCNN.forward *)

NoModelState == [logits |-> NoTensor, layer_states |-> <<>>, features |-> NoTensor]

\* _collect_layer_state: the last stage's output is cloned (an equal tensor),
\* the other states are passed on as they are
CollectLayerState(layer_idx, state) ==
    IF layer_idx = NumStages
    THEN [output       |-> state.output,
          pre_pool     |-> state.pre_pool,
          pool_indices |-> state.pool_indices]
    ELSE state

\* every stage given the call's input
NextInputSame(x, layer_output) == x

\* x = layer_output.output: what the next stage gets
NextInput(x, layer_output) == layer_output.output

\* the loop over enumerate(self.conv_layers, 1), from stage i on; calls are
\* the ConvLayer calls made so far, layer_states the states collected
RECURSIVE ForwardLoop(_, _, _, _, _, _)
ForwardLoop(cfg, ps, i, x, calls, layer_states) ==
    IF i > NumStages
    THEN [status |-> "ok", calls |-> calls, layer_states |-> layer_states, x |-> x]
    ELSE LET r == ConvLayerForward(cfg, Weight(ps, i), i, x)
             c == Append(calls, [stage |-> i, input |-> x, status |-> r.status,
                                 state |-> r.state])
         IN  IF r.status # "ok"
             THEN [status |-> r.status, calls |-> c, layer_states |-> layer_states, x |-> x]
             ELSE ForwardLoop(cfg, ps, i + 1, NextInput(x, r.state), c,
                              Append(layer_states, CollectLayerState(i, r.state)))

\* self.fc(x.view(x.size(0), -1))
Classifier(fc, x) ==
    IF x.shape[2] * x.shape[3] * x.shape[4] # fc.shape[2]
    THEN [status |-> "RuntimeError", logits |-> NoTensor]
    ELSE [status |-> "ok",
          logits |-> Tensor(<<x.shape[1], fc.shape[1]>>, "linear", <<fc.data>>, <<x.data>>)]

ForwardResult(cfg, ps, x) ==
    LET run == ForwardLoop(cfg, ps, 1, x, <<>>, <<>>)
        cls == Classifier(ps[FcWeightKey], run.x)
    IN  IF run.status # "ok"
        THEN [status |-> run.status, calls |-> run.calls, state |-> NoModelState]
        ELSE IF cls.status # "ok"
        THEN [status |-> cls.status, calls |-> run.calls, state |-> NoModelState]
        ELSE [status |-> "ok", calls |-> run.calls,
              state  |-> [logits       |-> cls.logits,
                          layer_states |-> run.layer_states,
                          features     |-> run.x]]

\* ModelState.final_features
FinalFeatures(ms) ==
    IF ms.features # NoTensor THEN ms.features
    ELSE ms.layer_states[Len(ms.layer_states)].output

\* the caller keeps the newest MaxStates ModelStates
Keep(held, ms) ==
    IF Len(held) < MaxStates THEN Append(held, ms) ELSE Append(Tail(held), ms)

Forward ==
    /\ nops < MaxOps
    /\ LET r == ForwardResult(config, params, image)
       IN  /\ last' = [op |-> "forward", prev |-> last.op, x |-> image, status |-> r.status,
                       calls |-> r.calls, state |-> r.state]
           /\ states' = IF r.status = "ok" THEN Keep(states, r.state) ELSE states
    /\ nops' = nops + 1
    /\ UNCHANGED <<config, params, image, plane>>

--------------------------------------------------------------------------
(* DeconvLayer.forward *)

\* nn.MaxUnpool2d(kernel_size=2, stride=2) with output_size: the size must be
\* within one stride of (n - 1) * 2 + 2
UnpoolSizeOk(n, out) == 2 * n - 2 < out /\ out < 2 * n + 2

\* weight.flip([2, 3]): both kernel axes reversed, which reverses the
\* row-by-row order of the positions
Flip(data) ==
    [o \in DOMAIN data |-> [c \in DOMAIN data[o] |->
        [p \in DOMAIN data[o][c] |-> data[o][c][Len(data[o][c]) + 1 - p]]]]

\* a copy of the weight taken when the DeconvLayer was built
DeconvWeightCopied(ps, j) ==
    InitParams(config, [i \in 1..NumStages |-> BuiltVals(i)])[ConvWeightKey(j)]

\* self.conv_layer.conv.weight, read when the layer is called
DeconvWeight(ps, j) == Weight(ps, j)

\* output_padding = 1 if stride[0] > 1 else 0
OutputPadding(j) == IF Stride(j) > 1 THEN 1 ELSE 0

\* the DeconvLayer that refers to conv stage j, on x
DeconvLayerForward(cfg, ps, j, x, max_indices, pre_pool_size) ==
    LET w    == DeconvWeight(ps, j)
        k    == cfg.kernel_size
        \* x = self.unpool(x, max_indices, output_size=pre_pool_size)
        un   == Tensor(<<x.shape[1], x.shape[2], pre_pool_size[3], pre_pool_size[4]>>,
                       "max_unpool", <<>>, <<x.data, max_indices.data>>)
        flip == Flip(w.data)
        oh   == ConvTransposeOutSize(un.shape[3], k, Stride(j), Padding(cfg, j), OutputPadding(j))
        ow   == ConvTransposeOutSize(un.shape[4], k, Stride(j), Padding(cfg, j), OutputPadding(j))
    IN  IF \/ x.shape # max_indices.shape
           \/ ~UnpoolSizeOk(x.shape[3], pre_pool_size[3])
           \/ ~UnpoolSizeOk(x.shape[4], pre_pool_size[4])
        THEN [status |-> "ValueError", weight |-> flip, unpooled |-> NoTensor, out |-> NoTensor]
        ELSE IF un.shape[2] # w.shape[1] \/ oh < 1 \/ ow < 1
        THEN [status |-> "RuntimeError", weight |-> flip, unpooled |-> un, out |-> NoTensor]
        ELSE [status |-> "ok", weight |-> flip, unpooled |-> un,
              out |-> Tensor(<<un.shape[1], w.shape[2], oh, ow>>, "conv_transpose",
                             <<j, flip, Stride(j), Padding(cfg, j), OutputPadding(j)>>,
                             <<un.data>>)]

--------------------------------------------------------------------------
(* SimpleCNN.deconv_visualization *)

\* the check without its lower bound
LayerSupportedUpTo(layer) == layer <= NumStages

\* if not 1 <= layer <= len(self.conv_layers): raise ValueError
LayerSupported(layer) == 1 <= layer /\ layer <= NumStages

\* start_idx = len(self.deconv_layers) - layer
StartIdx(layer) == NumStages - layer

\* the states taken in the deconv layers' order, not mirrored
LayerNumUnmirrored(d) == d + 1

\* layer_num = len(self.conv_layers) - i + 1, i = d + 1 the loop's counter for
\* self.deconv_layers[d]
LayerNum(d) == NumStages - (d + 1) + 1

\* the loop over self.deconv_layers[start_idx:], from deconv layer d (from 0) on
RECURSIVE DeconvLoop(_, _, _, _, _, _)
DeconvLoop(cfg, ps, ms, d, x, steps) ==
    IF d >= NumStages
    THEN [status |-> "ok", steps |-> steps, out |-> x]
    ELSE IF LayerNum(d) > Len(ms.layer_states)
    THEN [status |-> "IndexError", steps |-> steps, out |-> NoTensor]
    ELSE LET layer_state == ms.layer_states[LayerNum(d)]
             r == DeconvLayerForward(cfg, ps, PairedStage(d), x,
                                     layer_state.pool_indices, layer_state.pre_pool.shape)
             st == Append(steps, [deconv      |-> d,
                                  stage       |-> PairedStage(d),
                                  state_index |-> LayerNum(d) - 1,
                                  input       |-> x,
                                  indices     |-> layer_state.pool_indices,
                                  size        |-> layer_state.pre_pool.shape,
                                  weight      |-> r.weight,
                                  status      |-> r.status,
                                  out         |-> r.out])
         IN  IF r.status # "ok"
             THEN [status |-> r.status, steps |-> st, out |-> NoTensor]
             ELSE DeconvLoop(cfg, ps, ms, d + 1, r.out, st)

DeconvResult(cfg, ps, feature_maps, ms, layer) ==
    IF ~LayerSupported(layer)
    THEN [status |-> "ValueError", steps |-> <<>>, out |-> NoTensor]
    ELSE DeconvLoop(cfg, ps, ms, StartIdx(layer), feature_maps, <<>>)

DeconvVisualization(feature_maps, n, layer) ==
    /\ nops < MaxOps
    /\ n \in 1..Len(states)
    /\ LET r == DeconvResult(config, params, feature_maps, states[n], layer)
       IN  last' = [op |-> "deconv_visualization", prev |-> last.op,
                    feature_maps |-> feature_maps,
                    model_state |-> states[n], layer |-> layer,
                    status |-> r.status, steps |-> r.steps, out |-> r.out]
    /\ nops' = nops + 1
    /\ UNCHANGED <<config, params, image, states, plane>>

\* the feature maps a caller hands in for a layer: that layer's output of
\* the forward call, whole or with all but one activation zeroed
FeatureMaps(ms, layer) ==
    LET l == Max(1, Min(layer, Len(ms.layer_states)))
        t == ms.layer_states[l].output
    IN  {t, Tensor(t.shape, "keep_one", <<>>, <<t.data>>)}

--------------------------------------------------------------------------
(* SimpleCNN.load_state_dict.  A state_dict is a function from keys to     *)
(* parameter tensors.                                                      *)

Restrict(f, S) == [k \in S |-> f[k]]

\* the keys copied to new_state_dict
KeptKeys(sd) ==
    {key \in DOMAIN sd : StartsWith(key, PfxConv) \/ StartsWith(key, PfxFc)}

\* every entry kept, whatever its name
NewStateDictAll(sd) == sd

NewStateDict(sd) == Restrict(sd, KeptKeys(sd))

\* the names under which nn.Module.load_state_dict looks for the tensor stored
\* at an own key, in the order it visits them: the conv layer's name under
\* conv_layers, then, for a convolution weight, its name under deconv_layers
NamesOf(key) ==
    IF key \in ConvKeys
    THEN LET i == CHOOSE j \in 1..NumStages : ConvWeightKey(j) = key
         IN  <<key, DeconvWeightKey(NumStages - i)>>
    ELSE <<key>>

\* the names of the tensor that sd gives with the tensor's shape, in order
Loadable(old, key, sd) ==
    SelectSeq(NamesOf(key), LAMBDA n : n \in DOMAIN sd /\ sd[n].shape = old.shape)

\* a name that sd gives with another shape: torch reports a size mismatch
Mismatched(old, key, sd) ==
    \E n \in {NamesOf(key)[x] : x \in DOMAIN NamesOf(key)} :
        n \in DOMAIN sd /\ sd[n].shape # old.shape

\* nn.Module.load_state_dict(sd, strict=False): each tensor is copied from
\* every name sd gives it with the right shape, the last one staying; names of
\* sd that the module does not have, and names it has that sd lacks, are
\* passed over; a size mismatch raises once all tensors were visited
ModuleLoad(ps, sd) ==
    [params |-> [key \in DOMAIN ps |->
                    LET names == Loadable(ps[key], key, sd)
                    IN  IF names = <<>> THEN ps[key] ELSE sd[names[Len(names)]]],
     status |-> IF \E key \in DOMAIN ps : Mismatched(ps[key], key, sd)
                THEN "RuntimeError" ELSE "ok"]

\* super().load_state_dict(new_state_dict, strict=False)
LoadResult(ps, sd) == ModuleLoad(ps, NewStateDict(sd))

LoadStateDict(sd) ==
    /\ nops < MaxOps
    /\ LET r == LoadResult(params, sd)
       IN  /\ params' = r.params
           /\ last' = [op |-> "load_state_dict", prev |-> last.op, state_dict |-> sd,
                       before |-> params, status |-> r.status]
    /\ nops' = nops + 1
    /\ UNCHANGED <<config, image, states, plane>>

--------------------------------------------------------------------------
(* One (batch, channel) plane of a ConvLayer call, with its numbers: the   *)
(* plane z that self.bn(self.conv(x)) gives is rectified and pooled by     *)
(* ConvLayer.forward, and the pooled plane is unpooled by                  *)
(* DeconvLayer.forward.  A plane is a sequence of rows.                    *)

Rows(m) == Len(m)

Cols(m) == Len(m[1])

\* F.relu
Relu(m) == [r \in 1..Rows(m) |-> [c \in 1..Cols(m) |-> Max(m[r][c], 0)]]

\* the positions (row, column, from 0) of the 2x2 window of pooled position
\* (r, c) (from 1), in the order the kernel visits them
Window(r, c) ==
    <<<<2 * r - 2, 2 * c - 2>>, <<2 * r - 2, 2 * c - 1>>,
      <<2 * r - 1, 2 * c - 2>>, <<2 * r - 1, 2 * c - 1>>>>

At(m, pos) == m[pos[1] + 1][pos[2] + 1]

\* the first position of the window whose value no other exceeds
ArgMax(m, r, c) ==
    LET w == Window(r, c)
        n == CHOOSE i \in 1..4 :
                /\ \A j \in 1..4 : At(m, w[j]) <= At(m, w[i])
                /\ \A j \in 1..(i - 1) : At(m, w[j]) < At(m, w[i])
    IN  w[n]

\* nn.MaxPool2d(2, return_indices=True): the maxima, and for each the index
\* of its position in the flattened plane
MaxPool(m) ==
    [output  |-> [r \in 1..PoolOutSize(Rows(m)) |-> [c \in 1..PoolOutSize(Cols(m)) |->
                    At(m, ArgMax(m, r, c))]],
     indices |-> [r \in 1..PoolOutSize(Rows(m)) |-> [c \in 1..PoolOutSize(Cols(m)) |->
                    ArgMax(m, r, c)[1] * Cols(m) + ArgMax(m, r, c)[2]]]]

\* nn.MaxUnpool2d's size when it is given no output_size
UnpoolDefaultSize(x, pre_pool_size) == <<2 * Rows(x), 2 * Cols(x)>>

\* the size handed to self.unpool: pre_pool_size
UnpoolOutputSize(x, pre_pool_size) == pre_pool_size

\* nn.MaxUnpool2d(kernel_size=2, stride=2)(x, indices, output_size=size): a
\* plane of zeros of that size, with each value of x at its index
MaxUnpool(x, indices, size) ==
    [r \in 1..size[1] |-> [c \in 1..size[2] |->
        LET src == {q \in (1..Rows(x)) \X (1..Cols(x)) :
                       indices[q[1]][q[2]] = (r - 1) * size[2] + (c - 1)}
        IN  IF src = {} THEN 0
            ELSE LET q == CHOOSE q \in src : TRUE IN x[q[1]][q[2]]]]

\* ConvLayer.forward on the plane z
PoolPlane ==
    /\ plane.at = "conv"
    /\ LET pre == Relu(plane.z)
           mp  == MaxPool(pre)
       IN  plane' = [plane EXCEPT !.at = "pooled", !.pre_pool = pre,
                                  !.output = mp.output, !.pool_indices = mp.indices]
    /\ UNCHANGED <<config, params, image, states, last, nops>>

\* DeconvLayer.forward's unpooling of the plane, with the stage's own state
UnpoolPlane ==
    /\ plane.at = "pooled"
    /\ LET size == UnpoolOutputSize(plane.output,
                                    <<Rows(plane.pre_pool), Cols(plane.pre_pool)>>)
       IN  plane' = [plane EXCEPT
                        !.at = IF /\ UnpoolSizeOk(Rows(plane.output), size[1])
                                  /\ UnpoolSizeOk(Cols(plane.output), size[2])
                               THEN "unpooled" ELSE "ValueError",
                        !.unpooled = IF /\ UnpoolSizeOk(Rows(plane.output), size[1])
                                        /\ UnpoolSizeOk(Cols(plane.output), size[2])
                                     THEN MaxUnpool(plane.output, plane.pool_indices, size)
                                     ELSE <<>>]
    /\ UNCHANGED <<config, params, image, states, last, nops>>

--------------------------------------------------------------------------
(* Initial states and specifications *)

NoPlane == [at |-> "none", z |-> <<>>, pre_pool |-> <<>>, output |-> <<>>,
            pool_indices |-> <<>>, unpooled |-> <<>>]

NoCall == [op |-> "init", prev |-> "init"]

(* The network in use: forward passes, visualisations, parameter updates,  *)
(* normalisations and loads, in any order.                                 *)

MainConfig == [kernel_size |-> 3, channels |-> <<1, 1, 1, 1>>, fc_units |-> 2]

MainImages ==
    {InputTensor("a", 1, 224, 224), InputTensor("b", 2, 225, 226), InputTensor("c", 1, 8, 8)}

\* persisted mappings: entries for some of the model's tensors, under the
\* names of the conv layers, of the deconv layers and of the classifier, with
\* the tensor's shape or another, and entries under names the model lacks
Entries(cfg) ==
    {<<ConvWeightKey(1), MkConvWeight(ConvWeightShape(cfg, 1), SavedVals)>>,
     <<ConvWeightKey(1), MkConvWeight(<<cfg.channels[1] + 1, 3, 1, 1>>, SavedVals)>>,
     <<ConvWeightKey(NumStages), MkConvWeight(ConvWeightShape(cfg, NumStages), SavedVals)>>,
     <<FcWeightKey, MkFcWeight(FcWeightShape(cfg), 1)>>,
     <<DeconvWeightKey(0), MkConvWeight(ConvWeightShape(cfg, NumStages), StepVals)>>,
     <<ConvWeightKey(NumStages + 1), MkConvWeight(ConvWeightShape(cfg, NumStages), StepVals)>>,
     <<PfxFc \o <<"2">> \o SfxWeight, MkFcWeight(FcWeightShape(cfg), 2)>>,
     <<<<"f", "e", "a", "t", "u", "r", "e", "s">> \o SfxWeight, MkFcWeight(<<1, 1>>, 3)>>}

\* entries the mapping may hold
MaxEntries == 2

StateDicts(cfg) ==
    {[k \in {e[1] : e \in es} |-> (CHOOSE e \in es : e[1] = k)[2]] :
        es \in {x \in SUBSET Entries(cfg) :
                  /\ Cardinality(x) <= MaxEntries
                  /\ \A e1, e2 \in x : e1[1] = e2[1] => e1 = e2}}

MainStateDicts ==
    {sd \in StateDicts(MainConfig) :
        /\ ConvWeightKey(NumStages) \in DOMAIN sd
        /\ ConvWeightKey(1) \notin DOMAIN sd}

Init ==
    /\ config = MainConfig
    /\ params = InitParams(config, [i \in 1..NumStages |-> BuiltVals(i)])
    /\ image \in MainImages
    /\ states = <<>>
    /\ last = NoCall
    /\ nops = 0
    /\ plane = NoPlane

Next ==
    \/ Forward
    \/ \E n \in 1..Len(states), layer \in 0..(NumStages + 1) :
          \E fm \in FeatureMaps(states[n], layer) : DeconvVisualization(fm, n, layer)
    \/ NormalizeFilters
    \/ \E i \in 1..NumStages : OptimizerStep(i, StepVals)
    \/ \E sd \in MainStateDicts : LoadStateDict(sd)

Spec == Init /\ [][Next]_vars

(* The shapes: a network of any configuration on an image of any size *)

ShapeConfigs ==
    {[kernel_size |-> k, channels |-> ch, fc_units |-> 3] :
        k \in {3, 4, 7}, ch \in {<<1, 1, 1, 1>>, <<2, 1, 1, 2>>}}

ImageSizes == {224, 225, 227, 256, 12}

InitShape ==
    /\ config \in ShapeConfigs
    /\ params = InitParams(config, [i \in 1..NumStages |-> <<SmallVal, FZero, FNeg(SmallVal)>>])
    /\ \E b \in 1..2, h, w \in ImageSizes : image = InputTensor("a", b, h, w)
    /\ states = <<>>
    /\ last = NoCall
    /\ nops = 0
    /\ plane = NoPlane

NextShape ==
    \/ Forward
    \/ \E n \in 1..Len(states), layer \in 0..(NumStages + 1) :
          \E fm \in FeatureMaps(states[n], layer) : DeconvVisualization(fm, n, layer)

SpecShape == InitShape /\ [][NextShape]_vars

(* The filter normaliser: a network with 1x1 kernels, whose second stage   *)
(* has two filters of two weights each, drawn from WeightVals              *)

NormConfig == [kernel_size |-> 1, channels |-> <<2, 2, 1, 1>>, fc_units |-> 1]

InitNorm ==
    /\ config = NormConfig
    /\ \E a, b, c, d \in WeightVals :
          params = InitParams(config, <<<<SmallVal>>, <<a, b, c, d>>, <<SmallVal>>, <<SmallVal>>>>)
    /\ image = InputTensor("a", 1, 224, 224)
    /\ states = <<>>
    /\ last = NoCall
    /\ nops = 0
    /\ plane = NoPlane

NextNorm ==
    \/ NormalizeFilters
    \/ \E v \in {<<Pow2(MantBits) - 1, -MantBits>>, SmallVal} :
          OptimizerStep(2, <<v, FNeg(v), SmallVal>>)

SpecNorm == InitNorm /\ [][NextNorm]_vars

(* Loading: any of the persisted mappings, one after the other *)

InitLoad ==
    /\ config = MainConfig
    /\ params = InitParams(config, [i \in 1..NumStages |-> BuiltVals(i)])
    /\ image = InputTensor("a", 1, 224, 224)
    /\ states = <<>>
    /\ last = NoCall
    /\ nops = 0
    /\ plane = NoPlane

NextLoad == \E sd \in StateDicts(config) : LoadStateDict(sd)

SpecLoad == InitLoad /\ [][NextLoad]_vars

(* Pooling and unpooling: planes of any size up to MaxSide, filled row by  *)
(* row with PatLen values in turn                                          *)

MaxSide == 5

PatLen == 4

PlaneVals == {-1, 0, 1, 2}

MkPlane(h, w, vals) ==
    [r \in 1..h |-> [c \in 1..w |-> vals[(((r - 1) * w + (c - 1)) % PatLen) + 1]]]

InitPool ==
    /\ config = MainConfig
    /\ params = InitParams(config, [i \in 1..NumStages |-> BuiltVals(i)])
    /\ image = InputTensor("a", 1, 224, 224)
    /\ states = <<>>
    /\ last = NoCall
    /\ nops = 0
    /\ \E h, w \in 2..MaxSide, vals \in [1..PatLen -> PlaneVals] :
          plane = [NoPlane EXCEPT !.at = "conv", !.z = MkPlane(h, w, vals)]

NextPool == PoolPlane \/ UnpoolPlane

SpecPool == InitPool /\ [][NextPool]_vars

--------------------------------------------------------------------------
(* Properties *)

\* |a - b| is at most n units in the last place of b
FWithin(a, b, n) ==
    LET e == Min(a[2], b[2])
    IN  Abs(a[1] * Pow2(a[2] - e) - b[1] * Pow2(b[2] - e)) <= n * Pow2(b[2] - e)

FMin(a, b) == IF FGt(a, b) THEN b ELSE a

\* the size of the input that stage j got in the forward call that gave ms
StageInputShape(ms, j) == IF j = 1 THEN image.shape ELSE ms.layer_states[j - 1].output.shape

\* C1: deconv_visualization with a layer outside 1..N ends with ValueError
\* before any DeconvLayer is applied: no step is made, no layer state is read
\* and no tensor is returned.
C1_LayerOutOfRange ==
    (last.op = "deconv_visualization" /\ ~(1 <= last.layer /\ last.layer <= NumStages)) =>
        /\ last.status = "ValueError"
        /\ last.steps = <<>>
        /\ last.out = NoTensor

C1_Witness ==
    /\ last.op = "deconv_visualization"
    /\ last.layer = NumStages + 1
    /\ last.status = "ValueError"
    /\ Len(last.model_state.layer_states) = NumStages

\* C2: deconv_visualization for a layer L in 1..N applies the DeconvLayers
\* paired with conv stages L, L-1, ..., 1 in that order, L of them when it
\* completes, each on the output of the one before, and the step for stage j
\* takes pool_indices and the pre-pool size from layer_states[j-1] of the
\* ModelState it was given.
C2_StagesInOrder ==
    (last.op = "deconv_visualization" /\ 1 <= last.layer /\ last.layer <= NumStages) =>
        /\ Len(last.steps) <= last.layer
        /\ last.status = "ok" => Len(last.steps) = last.layer
        /\ \A n \in DOMAIN last.steps :
              /\ last.steps[n].stage = last.layer - n + 1
              /\ last.steps[n].deconv = NumStages - (last.layer - n + 1)
              /\ last.steps[n].state_index = last.layer - n
              /\ last.steps[n].indices =
                    last.model_state.layer_states[last.layer - n + 1].pool_indices
              /\ last.steps[n].size =
                    last.model_state.layer_states[last.layer - n + 1].pre_pool.shape
              /\ last.steps[n].input =
                    IF n = 1 THEN last.feature_maps ELSE last.steps[n - 1].out

C2_Witness ==
    /\ last.op = "deconv_visualization"
    /\ last.layer = NumStages
    /\ last.status = "ok"
    /\ Len(last.steps) = NumStages
    /\ last.steps[NumStages].stage = 1

\* C3: each step of deconv_visualization convolves with the weight its conv
\* stage has when the call is made, both kernel axes reversed, whatever
\* updates, normalisations and loads came before.
C3_CurrentWeight ==
    last.op = "deconv_visualization" =>
        \A n \in DOMAIN last.steps :
            \A o \in DOMAIN last.steps[n].weight :
                \A c \in DOMAIN last.steps[n].weight[o] :
                    \A p \in DOMAIN last.steps[n].weight[o][c] :
                        last.steps[n].weight[o][c][p] =
                            Weight(params, last.steps[n].stage).data[o][c][
                                config.kernel_size * config.kernel_size + 1 - p]

C3_Witness ==
    /\ last.op = "deconv_visualization"
    /\ last.prev \in {"step", "normalize_filters", "load_state_dict"}
    /\ \E n \in DOMAIN last.steps :
          /\ Weight(params, last.steps[n].stage).data
                # last.model_state.layer_states[last.steps[n].stage].pre_pool.data[2][2]
          /\ Weight(params, last.steps[n].stage).data # last.steps[n].weight
          /\ Weight(params, last.steps[n].stage).data
                # MkConvWeight(ConvWeightShape(config, last.steps[n].stage),
                               BuiltVals(last.steps[n].stage)).data

\* C4 (as amended): one application of normalize_filters multiplies every
\* weight of a filter whose RMS exceeds the radius by the reported scale, the
\* rounded radius / RMS, and leaves a filter whose RMS does not exceed the
\* radius unchanged, also when another filter of its stage was rescaled;
\* afterwards every filter's RMS is min(original RMS, radius) up to rounding:
\* within 2 units in the last place.
C4_Normalized ==
    last.op = "normalize_filters" =>
        \A i \in 1..NumStages : \A o \in DOMAIN Weight(last.before, i).data :
            \E rms \in {FilterRMS(Weight(last.before, i).data[o])} :
                /\ FGt(rms, FilterRadius) =>
                      /\ (i - 1) \in DOMAIN last.info
                      /\ last.info[i - 1].exceeded[o]
                      /\ FWithin(last.info[i - 1].scale[o], FDiv(FilterRadius, rms), 2)
                      /\ \A c \in DOMAIN Weight(params, i).data[o] :
                            \A p \in DOMAIN Weight(params, i).data[o][c] :
                                Weight(params, i).data[o][c][p] =
                                    FMul(Weight(last.before, i).data[o][c][p],
                                         last.info[i - 1].scale[o])
                /\ FLe(rms, FilterRadius) =>
                      Weight(params, i).data[o] = Weight(last.before, i).data[o]
                /\ FWithin(FilterRMS(Weight(params, i).data[o]), FMin(rms, FilterRadius), 2)

C4_Witness ==
    /\ last.op = "normalize_filters"
    /\ \E o1, o2 \in DOMAIN Weight(last.before, 2).data :
          /\ FGt(FilterRMS(Weight(last.before, 2).data[o1]), FilterRadius)
          /\ FLe(FilterRMS(Weight(last.before, 2).data[o2]), FilterRadius)
          /\ FilterRMS(Weight(last.before, 2).data[o2]) # FZero
          /\ Weight(params, 2).data[o1] # Weight(last.before, 2).data[o1]
          /\ Weight(params, 2).data[o2] = Weight(last.before, 2).data[o2]

\* C4 as stated: after one application of normalize_filters every filter's
\* RMS equals min(original RMS, radius).
C4_ExactRMS ==
    last.op = "normalize_filters" =>
        \A i \in 1..NumStages : \A o \in DOMAIN Weight(last.before, i).data :
            FilterRMS(Weight(params, i).data[o]) =
                FMin(FilterRMS(Weight(last.before, i).data[o]), FilterRadius)

\* C5: a second application of normalize_filters right after the first
\* changes no weight and reports no rescaled filter.
C5_Idempotent ==
    (last.op = "normalize_filters" /\ last.prev = "normalize_filters") =>
        /\ params = last.before
        /\ DOMAIN last.info = {}

\* C6: load_state_dict copies the entries stored under the names of the conv
\* layers' and the classifier's tensors and nothing else: entries under other
\* names (deconv_layers.*, names the model lacks) change no parameter and
\* raise no error, and a tensor the mapping has no entry for keeps its value,
\* without error.
C6_LenientLoad ==
    last.op = "load_state_dict" =>
        /\ DOMAIN params = OwnKeys
        /\ \A k \in OwnKeys :
              params[k] = IF /\ k \in DOMAIN last.state_dict
                             /\ last.state_dict[k].shape = last.before[k].shape
                          THEN last.state_dict[k]
                          ELSE last.before[k]
        /\ (\A k \in OwnKeys \cap DOMAIN last.state_dict :
                last.state_dict[k].shape = last.before[k].shape) => last.status = "ok"

C6_Witness ==
    /\ last.op = "load_state_dict"
    /\ last.status = "ok"
    /\ DeconvWeightKey(0) \in DOMAIN last.state_dict
    /\ last.state_dict[DeconvWeightKey(0)] # last.before[ConvWeightKey(NumStages)]
    /\ DOMAIN last.state_dict \cap OwnKeys = {}
    /\ Cardinality(DOMAIN last.state_dict) = 2
    /\ params = last.before

\* C7: forward calls the stages 1, 2, ... in order, each on the pooled output
\* the stage before gave in this call; when it completes there are N layer
\* states, layer_states[i] (from 0) the record of stage i+1, the logits are
\* computed from the last stage's output, and final_features is the last
\* layer state's output.
C7_ForwardInOrder ==
    last.op = "forward" =>
        /\ \A n \in DOMAIN last.calls :
              /\ last.calls[n].stage = n
              /\ last.calls[n].input =
                    IF n = 1 THEN last.x ELSE last.calls[n - 1].state.output
              /\ n > 1 => last.calls[n - 1].status = "ok"
        /\ last.status = "ok" =>
              /\ Len(last.calls) = NumStages
              /\ Len(last.state.layer_states) = NumStages
              /\ \A i \in 1..NumStages :
                    last.state.layer_states[i] = last.calls[i].state
              /\ last.state.logits.data[1] = "linear"
              /\ last.state.logits.data[3] = <<last.calls[NumStages].state.output.data>>
              /\ FinalFeatures(last.state) = last.state.layer_states[NumStages].output
              /\ states[Len(states)] = last.state

C7_Witness ==
    /\ last.op = "forward"
    /\ last.status = "ok"
    /\ Len(last.calls) = NumStages
    /\ last.calls[NumStages].input = last.state.layer_states[NumStages - 1].output
    /\ last.prev = "step"

\* C8: with kernel size 7 on a (B, 3, 224, 224) input, forward gives 4 layer
\* states with outputs of spatial size 56, 28, 14 and 7, every stride-1 stage
\* keeping its input's spatial size up to the pooling; the last output has
\* conv4_channels * 7 * 7 entries per example, the classifier's input width,
\* and the logits have shape (B, fc_units).
C8_DefaultShapes ==
    (/\ last.op = "forward"
     /\ config.kernel_size = 7
     /\ last.x.shape[3] = 224
     /\ last.x.shape[4] = 224) =>
        /\ last.status = "ok"
        /\ Len(last.state.layer_states) = 4
        /\ \A i \in 1..4 :
              last.state.layer_states[i].output.shape =
                  <<last.x.shape[1], config.channels[i],
                    <<56, 28, 14, 7>>[i], <<56, 28, 14, 7>>[i]>>
        /\ \A i \in 2..4 :
              /\ last.state.layer_states[i].pre_pool.shape[3] =
                    last.state.layer_states[i - 1].output.shape[3]
              /\ last.state.layer_states[i].pre_pool.shape[4] =
                    last.state.layer_states[i - 1].output.shape[4]
        /\ last.state.layer_states[4].output.shape[2]
              * last.state.layer_states[4].output.shape[3]
              * last.state.layer_states[4].output.shape[4] = config.channels[4] * 7 * 7
        /\ params[FcWeightKey].shape[2] = config.channels[4] * 7 * 7
        /\ last.state.logits.shape = <<last.x.shape[1], config.fc_units>>

C8_Witness ==
    /\ last.op = "forward"
    /\ config.kernel_size = 7
    /\ config.channels = <<2, 1, 1, 2>>
    /\ last.x.shape = <<2, 3, 224, 224>>
    /\ last.status = "ok"
    /\ last.state.layer_states[4].output.shape = <<2, 2, 7, 7>>

\* C9: unpooling a stage's pooled plane with the stage's own pool_indices to
\* the size of its pre_pool always succeeds and gives a plane of pre_pool's
\* size that equals pre_pool at every recorded position of a window's maximum
\* and is zero everywhere else, for odd and even sizes.
C9_UnpoolRestoresMaxima ==
    /\ plane.at # "ValueError"
    /\ plane.at = "unpooled" =>
          /\ Len(plane.unpooled) = Len(plane.pre_pool)
          /\ \A r \in DOMAIN plane.pre_pool :
                /\ Len(plane.unpooled[r]) = Len(plane.pre_pool[r])
                /\ \A c \in DOMAIN plane.pre_pool[r] :
                      plane.unpooled[r][c] =
                          IF \E pr \in DOMAIN plane.pool_indices :
                                \E pc \in DOMAIN plane.pool_indices[pr] :
                                    plane.pool_indices[pr][pc] =
                                        (r - 1) * Len(plane.pre_pool[r]) + (c - 1)
                          THEN plane.pre_pool[r][c]
                          ELSE 0

C9_Witness ==
    /\ plane.at = "unpooled"
    /\ Len(plane.pre_pool) = 5
    /\ Len(plane.pre_pool[1]) = 3
    /\ plane.output[2][1] = 2
    /\ plane.unpooled[5] = <<0, 0, 0>>
    /\ plane.pre_pool[5] # <<0, 0, 0>>

\* C10: every step of deconv_visualization returns a tensor with the spatial
\* size of the input its conv stage got in the forward call and with the
\* stage's in_channels, so that the call returns a tensor with the shape of
\* the network's input.
C10_ReversalRestoresSize ==
    (last.op = "deconv_visualization" /\ 1 <= last.layer /\ last.layer <= NumStages) =>
        /\ last.status = "ok"
        /\ \A n \in DOMAIN last.steps :
              last.steps[n].out.shape =
                  <<StageInputShape(last.model_state, last.steps[n].stage)[1],
                    InChannels(config, last.steps[n].stage),
                    StageInputShape(last.model_state, last.steps[n].stage)[3],
                    StageInputShape(last.model_state, last.steps[n].stage)[4]>>
        /\ last.out.shape = image.shape

==========================================================================
